---- MODULE Spec2Model ----
(***************************************************************************)
(* DeepFool perturbation search (src/deep-fool.ipynb, function deepfool).  *)
(*                                                                         *)
(* Numbers: every real quantity of the notebook (inputs, scores,           *)
(* gradients, steps, distances) is a fixed-point integer counting units of *)
(* 1/Scale.  Scale is 1000, so the stabiliser 1e-3 of the source is one    *)
(* unit.  Sums, differences and squares are exact.  A quotient is taken of *)
(* exact operands and rounded once, toward zero, to the unit, where the    *)
(* source rounds to a float32.  The norm w_k_norm, a square root, is kept  *)
(* to 1/(Scale * Scale), so that the distance it divides is right to the   *)
(* unit.                                                                   *)
(*                                                                         *)
(* Tensors: x0, xi, every gradient and every step is a sequence of fields  *)
(* (what `for x_input in x0` iterates over), each field a sequence of rows *)
(* (what `field[0]` indexes), each row a sequence of numbers.              *)
(*                                                                         *)
(* The classifier is a collaborator.  It is modelled by a family of linear *)
(* test doubles: score_k(x) = Bias(m, k) + sum Weight(m, k, .) * x, whose  *)
(* gradient for class k is Weight(m, k, .).                                *)
(***************************************************************************)
EXTENDS Integers, Sequences, FiniteSets, TLC

\* ------------------------------------------------------------------ bounds

\* the greatest max_iter tried
MaxIter == 2
\* the most fields an input has
MaxFields == 2
\* the most rows a field has
MaxRows == 2

\* ----------------------------------------------------------------- inputs

\* the columns of a row
ColCounts == {1}
\* the test doubles standing for the classifier
ModelIds == {0, 1, 2}
\* the input patterns: all zero, and alternating 1.0 and 2.0
Patterns == {0, 1}

\* --------------------------------------------------------- program constants

\* range(10): the classes the scan visits
ClassRange == 10
\* 1e-3 counts Scale units of 1/Scale
Scale == 1000
\* the stabiliser 1e-3, in units of 1/Scale
Eps == 1
\* np.inf: above every quotient the model can form
Inf == 2000000000

\* the score-vector lengths tried: one below, at and one above range(10)
ClassCounts == {ClassRange - 1, ClassRange, ClassRange + 1}
\* eta: 1.0 and 2.0, both whole so that (1 + eta) * r_i is exact
Etas == {Scale, 2 * Scale}
\* how the build's argsort orders equal keys (the default kind is not stable)
TieOrders == {"ascending", "descending"}

\* ------------------------------------------------------------- arithmetic

Abs(a) == IF a < 0 THEN -a ELSE a

Sign(a) == IF a < 0 THEN -1 ELSE 1

\* bisection for the floor of the square root of n between lo and hi
SqrtSearch[n \in Nat, lo \in Nat, hi \in Nat] ==
    IF lo >= hi THEN lo
    ELSE IF ((lo + hi + 1) \div 2) * ((lo + hi + 1) \div 2) <= n
         THEN SqrtSearch[n, (lo + hi + 1) \div 2, hi]
         ELSE SqrtSearch[n, lo, ((lo + hi + 1) \div 2) - 1]

\* floor of the square root of a natural number below 2^31
ISqrt(n) == SqrtSearch[n, 0, 46340]

\* m * m <= n * Scale * Scale, the square taken in two halves of m so that
\* no product leaves 32 bits
SquareFits(m, n) ==
    \/ (m \div Scale) * (m \div Scale)
          + (2 * (m \div Scale) * (m % Scale) + ((m % Scale) * (m % Scale)) \div Scale) \div Scale < n
    \/ /\ (m \div Scale) * (m \div Scale)
             + (2 * (m \div Scale) * (m % Scale) + ((m % Scale) * (m % Scale)) \div Scale) \div Scale = n
       /\ m % Scale = 0

\* bisection for the floor of Scale * sqrt(n) between lo and hi
FineSearch[n \in Nat, lo \in Nat, hi \in Nat] ==
    IF lo >= hi THEN lo
    ELSE IF SquareFits((lo + hi + 1) \div 2, n)
         THEN FineSearch[n, (lo + hi + 1) \div 2, hi]
         ELSE FineSearch[n, lo, ((lo + hi + 1) \div 2) - 1]

\* floor of Scale * sqrt(n): the root of n to three more decimal places
FineSqrt(n) == FineSearch[n, ISqrt(n) * Scale, ISqrt(n) * Scale + Scale - 1]

\* a * b of two fixed-point numbers
FMul[a \in Int, b \in Int] == (a \div Scale) * b + ((a % Scale) * b) \div Scale

\* floor of r * s / b for 0 <= r < b and s a power of ten, digit by digit
Frac[r \in Nat, b \in Nat, s \in Nat] ==
    IF s <= 1 THEN 0
    ELSE ((10 * r) \div b) * (s \div 10) + Frac[(10 * r) % b, b, s \div 10]

\* a / b of two fixed-point numbers, a >= 0 and b > 0
FDiv[a \in Int, b \in Int] == (a \div b) * Scale + Frac[a % b, b, Scale]

\* the function f itself, its values computed once and kept
Materialise(f) == f @@ <<>>

\* the sum of a sequence of integers
SumOf[s \in Seq(Int)] == IF s = <<>> THEN 0 ELSE Head(s) + SumOf[Tail(s)]

SeqSum(s) == SumOf[s]

\* ---------------------------------------------------------------- tensors

\* np.zeros(x_input.shape) for every field of x
Zeros(x) == [i \in DOMAIN x |-> [t \in DOMAIN x[i] |-> [c \in DOMAIN x[i][t] |-> 0]]]

TAdd(a, b) ==
    [i \in DOMAIN a |-> [t \in DOMAIN a[i] |-> [c \in DOMAIN a[i][t] |->
        a[i][t][c] + b[i][t][c]]]]

TSub(a, b) ==
    [i \in DOMAIN a |-> [t \in DOMAIN a[i] |-> [c \in DOMAIN a[i][t] |->
        a[i][t][c] - b[i][t][c]]]]

\* s * a for a fixed-point scalar s
TScale(s, a) ==
    [i \in DOMAIN a |-> [t \in DOMAIN a[i] |-> [c \in DOMAIN a[i][t] |->
        FMul[s, a[i][t][c]]]]]

\* the (rows, cols) of every field
Shape(x) == [i \in DOMAIN x |-> <<Len(x[i]), IF Len(x[i]) = 0 THEN 0 ELSE Len(x[i][1])>>]

\* np.linalg.norm(field)**2: the sum of the squares of the elements of the
\* field, in units of 1/(Scale * Scale)
FieldSquares(fld) ==
    SeqSum([t \in DOMAIN fld |-> SeqSum([c \in DOMAIN fld[t] |-> fld[t][c] * fld[t][c]])])

\* the sum over the fields of np.linalg.norm(field)**2, in units of
\* 1/(Scale * Scale)
SumSquares(w) == SeqSum([i \in DOMAIN w |-> FieldSquares(w[i])])

\* np.sum([np.linalg.norm(field)**2 for field in w])
SquaredNorm(w) == SumSquares(w) \div Scale

\* ------------------------------------------------------------- classifier

Weight(m, k, i, t, c) == (((m + 1) * k + i + 2 * t + c) % 3) - 1

Bias(m, k) == ((m * k) % 4) * Scale

X0Value(p, i, t, c) == p * (((i + t + c) % 2) + 1) * Scale

InputTensor(p, nf, nr, nc) ==
    [i \in 1..nf |-> [t \in 1..nr |-> [c \in 1..nc |-> X0Value(p, i, t, c)]]]

Score(m, k, x) ==
    Bias(m, k)
    + SeqSum([i \in DOMAIN x |-> SeqSum([t \in DOMAIN x[i] |->
          SeqSum([c \in DOMAIN x[i][t] |-> Weight(m, k, i, t, c) * x[i][t][c]])])])

\* model.predict(x).flatten(), and results[0, :] of model(x)
Predict(m, n, x) == Materialise([k \in 0..(n - 1) |-> Score(m, k, x)])

\* tape.gradient(results[0, k], x)
Gradient(m, k, x) ==
    [i \in DOMAIN x |-> [t \in DOMAIN x[i] |-> [c \in DOMAIN x[i][t] |->
        Weight(m, k, i, t, c) * Scale]]]

\* ------------------------------------------------------------------ state

VARIABLES
    model_id,       \* which test double stands for `model`
    num_classes,    \* the length of the model's score vector
    eta,            \* the overshoot, fixed-point
    max_iter,       \* the iteration cap
    argsort_ties,   \* the order the build's argsort leaves equal keys in
    x0_at_call,     \* the value the caller's x0 had when deepfool was called
    mem,            \* the arrays: the caller's "x0", the candidate "xi", "r_sum"
    pc,             \* where deepfool is
    f_x0, label_x0, loop_i, xi, label_xi, r,
    w_l, f_l, fk_wk_min, grad_f_label_x0_on_xi, f_xi, k,
    r_sum,          \* the array r_sum names ("none" before line 199)
    scanned,        \* the class indices line 177 passed to get_gradient this iteration
    dist,           \* fk_wk of every class scanned this iteration
    l_class,        \* the class (w_l, f_l) was taken from, -1 for the initial zeros
    grad_calls      \* how many times get_gradient was called

inputs == <<model_id, num_classes, eta, max_iter, argsort_ties, x0_at_call>>
locals == <<f_x0, label_x0, loop_i, xi, label_xi, r>>
scan == <<w_l, f_l, fk_wk_min, grad_f_label_x0_on_xi, f_xi, k, scanned, dist, l_class>>
vars == <<inputs, mem, pc, locals, scan, r_sum, grad_calls>>

Refs == {"x0", "xi", "r_sum"}

\* --------------------------------------------------------------- deepfool

\* v.argsort() over the index set S: ascending by value, equal keys in the
\* order the build's sort leaves them
Before(v, a, b, ties) ==
    \/ v[a] < v[b]
    \/ v[a] = v[b] /\ (IF ties = "ascending" THEN a < b ELSE a > b)

\* v.argsort(): position j holds the index that j - 1 others come before
Argsort(v, ties) ==
    [j \in 1..Cardinality(DOMAIN v) |->
        CHOOSE a \in DOMAIN v :
            Cardinality({b \in DOMAIN v : Before(v, b, a, ties)}) = j - 1]

\* s[::-1]
Reverse(s) == [j \in DOMAIN s |-> s[Cardinality(DOMAIN s) + 1 - j]]

\* v.argsort()[0]: the reversal left out
Label_NoReverse(v, ties) == Argsort(v, ties)[1]

\* v.argsort()[::-1][0]
Label(v, ties) == Reverse(Argsort(v, ties))[1]

\* the loop runs once more after the cap is reached
LoopCond_OffByOne == label_xi = label_x0 /\ loop_i <= max_iter

\* the loop ignores the label and runs to the cap
LoopCond_NoLabel == loop_i < max_iter

\* while label_xi == label_x0 and loop_i < max_iter
LoopCond == label_xi = label_x0 /\ loop_i < max_iter

\* the counter grows by two
NextCount_Twice(n) == n + 2

\* loop_i += 1
NextCount(n) == n + 1

\* the top class is scanned like any other
SkipClass_Never(c, label) == FALSE

\* if (k == label_x0): continue
SkipClass(c, label) == c = label

\* the overshoot is dropped
XiNew_NoOvershoot(x, ri, e) == TAdd(x, ri)

\* [xi_item + (1+eta)*ri_item for xi_item, ri_item in zip(xi, ri)]
XiNew(x, ri, e) == TAdd(x, TScale(Scale + e, ri))

\* the scores are those of the unperturbed input, not of the candidate
Rescore_Stale(x) == f_x0

\* model.predict(xi).flatten()
Rescore(x) == Predict(model_id, num_classes, x)

\* r_sum is bound to the caller's arrays instead of fresh zeros
RSumAlloc_Alias(mm) == [ref |-> "x0", mem |-> mm]

\* r_sum = [np.zeros(x_input.shape) for x_input in x0]: fresh arrays
RSumAlloc(mm) == [ref |-> "r_sum", mem |-> [mm EXCEPT !["r_sum"] = Zeros(mm["x0"])]]

\* fld += row, the row broadcast over every row of fld
BroadcastAdd(fld, row) ==
    [t \in DOMAIN fld |-> [c \in DOMAIN fld[t] |-> fld[t][c] + row[c]]]

\* for r_i in r: r_sum[i] += r_i[i][0]
RECURSIVE Accumulate(_, _, _)
Accumulate(fld, i, hist) ==
    IF hist = <<>> THEN fld
    ELSE Accumulate(BroadcastAdd(fld, Head(hist)[i][1]), i, Tail(hist))

\* w_k_norm = np.sqrt(np.sum([np.linalg.norm(field)**2 ...])), in units of
\* 1/(Scale * Scale)
WkNorm(w) == FineSqrt(SumSquares(w))

\* fk_wk = np.linalg.norm(f_k) / (w_k_norm + 1e-3)
Distance(f, w) == FDiv[Abs(f) * Scale, WkNorm(w) + Eps * Scale]

\* ri_const = f_l_norm / (w_l_squared_norm + 1e-3); ri = ri_const * w_l:
\* each element is |f_l| * w / (||w_l||^2 + 1e-3), rounded toward zero
StepOf(f, w) ==
    [i \in DOMAIN w |-> [t \in DOMAIN w[i] |-> [c \in DOMAIN w[i][t] |->
        Sign(w[i][t][c]) * ((Abs(f) * Abs(w[i][t][c])) \div (SquaredNorm(w) + Eps))]]]

\* w_k = [g_f_k - g_f_label for ... in zip(grad_f_k_on_xi, grad_f_label_x0_on_xi)]
WkOf(c) == TSub(Gradient(model_id, c, mem[xi]), grad_f_label_x0_on_xi)

NoTensor == <<>>
NoScores == <<>>

Init ==
    /\ model_id \in ModelIds
    /\ num_classes \in ClassCounts
    /\ eta \in Etas
    /\ max_iter \in 0..MaxIter
    /\ argsort_ties \in TieOrders
    /\ \E p \in Patterns, nf \in 1..MaxFields, nr \in 1..MaxRows, nc \in ColCounts :
          /\ x0_at_call = InputTensor(p, nf, nr, nc)
          /\ mem = [ref \in Refs |-> IF ref = "x0" THEN InputTensor(p, nf, nr, nc) ELSE NoTensor]
    /\ pc = "start"
    /\ f_x0 = NoScores /\ label_x0 = -1 /\ loop_i = 0 /\ xi = "none" /\ label_xi = -1
    /\ r = <<>>
    /\ w_l = NoTensor /\ f_l = 0 /\ fk_wk_min = Inf
    /\ grad_f_label_x0_on_xi = NoTensor /\ f_xi = NoScores /\ k = 0
    /\ scanned = {} /\ dist = <<>> /\ l_class = -1
    /\ r_sum = "none"
    /\ grad_calls = 0

\* lines 158-165
Start ==
    /\ pc = "start"
    /\ f_x0' = Predict(model_id, num_classes, mem["x0"])
    /\ label_x0' = Label(f_x0', argsort_ties)
    /\ loop_i' = 0
    /\ xi' = "xi"
    /\ mem' = [mem EXCEPT !["xi"] = mem["x0"]]
    /\ label_xi' = label_x0'
    /\ r' = <<>>
    /\ pc' = "loop"
    /\ UNCHANGED <<inputs, scan, r_sum, grad_calls>>

\* lines 168-172: the loop is entered
LoopEnter ==
    /\ pc = "loop"
    /\ LoopCond
    /\ w_l' = Zeros(mem["x0"])
    /\ f_l' = 0
    /\ fk_wk_min' = Inf
    /\ grad_f_label_x0_on_xi' = Gradient(model_id, label_x0, mem[xi])
    /\ f_xi' = Predict(model_id, num_classes, mem[xi])
    /\ grad_calls' = grad_calls + 1
    /\ k' = 0
    /\ scanned' = {}
    /\ dist' = <<>>
    /\ l_class' = -1
    /\ pc' = "scan"
    /\ UNCHANGED <<inputs, mem, locals, r_sum>>

\* lines 174-176: the top class is passed over
ScanSkip ==
    /\ pc = "scan"
    /\ k < ClassRange
    /\ SkipClass(k, label_x0)
    /\ k' = k + 1
    /\ UNCHANGED <<inputs, mem, pc, locals, r_sum, grad_calls,
                   w_l, f_l, fk_wk_min, grad_f_label_x0_on_xi, f_xi, scanned, dist, l_class>>

\* lines 182-183: the comparison against fk_wk_min, which line 171 set and
\* nothing updates
Compare(w_k, f_k, fk_wk) ==
    /\ IF fk_wk < fk_wk_min
       THEN w_l' = w_k /\ f_l' = f_k /\ l_class' = k
       ELSE UNCHANGED <<w_l, f_l, l_class>>
    /\ dist' = [c \in scanned \cup {k} |-> IF c = k THEN fk_wk ELSE dist[c]]

\* lines 177-183: one class is scanned
ScanClass ==
    /\ pc = "scan"
    /\ k < ClassRange
    /\ ~SkipClass(k, label_x0)
    /\ k < num_classes
    /\ f_xi' = Predict(model_id, num_classes, mem[xi])
    /\ Compare(WkOf(k), f_xi'[k] - f_xi'[label_x0],
               Distance(f_xi'[k] - f_xi'[label_x0], WkOf(k)))
    /\ scanned' = scanned \cup {k}
    /\ grad_calls' = grad_calls + 1
    /\ k' = k + 1
    /\ UNCHANGED <<inputs, mem, pc, locals, r_sum, fk_wk_min, grad_f_label_x0_on_xi>>

\* lines 177, 125: results[0, k] with k beyond the score vector raises
ScanRaise ==
    /\ pc = "scan"
    /\ k < ClassRange
    /\ ~SkipClass(k, label_x0)
    /\ k >= num_classes
    /\ scanned' = scanned \cup {k}
    /\ grad_calls' = grad_calls + 1
    /\ pc' = "raised"
    /\ UNCHANGED <<inputs, mem, locals, r_sum,
                   w_l, f_l, fk_wk_min, grad_f_label_x0_on_xi, f_xi, k, dist, l_class>>

\* lines 185-192: the step is taken from the winner and the candidate moves
Step ==
    /\ pc = "scan"
    /\ k = ClassRange
    /\ r' = Append(r, StepOf(f_l, w_l))
    /\ mem' = [mem EXCEPT !["xi"] = XiNew(mem[xi], r'[Len(r')], eta)]
    /\ xi' = "xi"
    /\ pc' = "predict"
    /\ UNCHANGED <<inputs, f_x0, label_x0, loop_i, label_xi, scan, r_sum, grad_calls>>

\* line 194: label_xi holds the scores of the new candidate
Repredict ==
    /\ pc = "predict"
    /\ label_xi' = Rescore(mem[xi])
    /\ pc' = "argsort"
    /\ UNCHANGED <<inputs, mem, f_x0, label_x0, loop_i, xi, r, scan, r_sum, grad_calls>>

\* lines 195-196: label_xi becomes the label, the counter grows
Relabel ==
    /\ pc = "argsort"
    /\ label_xi' = Label(label_xi, argsort_ties)
    /\ loop_i' = NextCount(loop_i)
    /\ pc' = "loop"
    /\ UNCHANGED <<inputs, mem, f_x0, label_x0, xi, r, scan, r_sum, grad_calls>>

\* lines 168, 199: the loop is left and r_sum is allocated
LoopExit ==
    /\ pc = "loop"
    /\ ~LoopCond
    /\ r_sum' = RSumAlloc(mem).ref
    /\ mem' = RSumAlloc(mem).mem
    /\ pc' = "sum"
    /\ UNCHANGED <<inputs, locals, scan, grad_calls>>

\* lines 200-205: the history is added into r_sum and deepfool returns
Sum ==
    /\ pc = "sum"
    /\ mem' = [mem EXCEPT ![r_sum] =
                  [i \in 1..Len(mem["x0"]) |-> Accumulate(mem[r_sum][i], i, r)]]
    /\ pc' = "done"
    /\ UNCHANGED <<inputs, locals, scan, r_sum, grad_calls>>

Next ==
    \/ Start
    \/ LoopEnter
    \/ ScanSkip
    \/ ScanClass
    \/ ScanRaise
    \/ Step
    \/ Repredict
    \/ Relabel
    \/ LoopExit
    \/ Sum

Spec == Init /\ [][Next]_vars

\* the interpreter runs the call to its end
FairSpec == Spec /\ WF_vars(Next)

\* ----------------------------------------------------------------- claims

\* score of class c at the current candidate
ScoreAt(c) == Score(model_id, c, mem[xi])

Classes == 0..(num_classes - 1)

\* the indices holding the greatest value of v
ArgMaxSet(v) == {a \in DOMAIN v : \A b \in DOMAIN v : v[b] <= v[a]}

SetMax(S) == CHOOSE a \in S : \A b \in S : b <= a
SetMin(S) == CHOOSE a \in S : \A b \in S : a <= b

\* the field-wise, element-by-element sum of the steps in hist
RECURSIVE SumHistory(_, _)
SumHistory(hist, zero) ==
    IF hist = <<>> THEN zero ELSE TAdd(Head(hist), SumHistory(Tail(hist), zero))

StepSum == SumHistory(r, Zeros(x0_at_call))

AtLoopOrAfter == pc \in {"loop", "sum", "done"}

\* C1: deepfool ends (it returns, or an oracle call raises), and the
\* iteration counter stays within 0..max_iter from the call to the return.
C1_BoundedIterations ==
    /\ [](loop_i >= 0 /\ loop_i <= max_iter)
    /\ <>(pc \in {"done", "raised"})

\* a call that used its whole budget of at least two iterations and returned
C1_Witness == pc = "done" /\ loop_i = max_iter /\ max_iter >= 2

\* C2: at return the label differs from label_x0 or the counter equals
\* max_iter, and an iteration is only ever running while the label last
\* computed equals label_x0 and the counter is below max_iter.
C2_StopCondition ==
    /\ pc \in {"sum", "done"} => (label_xi # label_x0 \/ loop_i = max_iter)
    /\ pc \in {"scan", "predict"} => (label_xi = label_x0 /\ loop_i < max_iter)
    /\ pc \in {"sum", "done"} /\ label_xi = label_x0 => loop_i = max_iter

\* a call that returned on a label flip with budget left
C2_Witness == pc = "done" /\ label_xi # label_x0 /\ loop_i >= 1 /\ loop_i < max_iter

\* C3: when the scan of an iteration is over, (w_l, f_l) is that of the
\* scanned class of least distance, the lowest index among equal distances.
C3_NearestClassWins ==
    (pc = "scan" /\ k = ClassRange /\ scanned # {}) =>
        /\ l_class \in scanned
        /\ \A c \in scanned :
              dist[l_class] < dist[c] \/ (dist[l_class] = dist[c] /\ l_class <= c)
        /\ w_l = WkOf(l_class)
        /\ f_l = f_xi[l_class] - f_xi[label_x0]

\* C4 as claimed: the classes scanned are 0..N-1 without label_x0, N the
\* length of the score vector, and no index from N on reaches the oracle.
C4_ScansScoreVectorRange ==
    /\ scanned \subseteq Classes
    /\ (pc = "scan" /\ k = ClassRange) => scanned = Classes \ {label_x0}

\* C4 as amended: the classes scanned are those of range(10) without
\* label_x0, whatever the length of the score vector; an index of range(10)
\* beyond the score vector reaches the oracle, which raises; with a score
\* vector of length 10 the scan covers every class but label_x0.
C4_ScansFixedRange ==
    /\ pc = "scan" => scanned = (0..(k - 1)) \ {label_x0}
    /\ (pc = "scan" /\ k = ClassRange) => scanned = (0..(ClassRange - 1)) \ {label_x0}
    /\ (pc = "scan" /\ k = ClassRange /\ num_classes = ClassRange) =>
           scanned = Classes \ {label_x0}
    /\ pc = "raised" => (num_classes < ClassRange /\ num_classes \in scanned)

\* a complete scan over a score vector of length 10
C4_Witness == pc = "scan" /\ k = ClassRange /\ num_classes = ClassRange /\ loop_i = 1

\* C5 as claimed: the label is the lowest index holding the maximal score.
C5_LowestIndexOnTies ==
    /\ pc # "start" => label_x0 = SetMin(ArgMaxSet(f_x0))
    /\ AtLoopOrAfter => \A c \in Classes :
           ScoreAt(c) < ScoreAt(label_xi) \/ (ScoreAt(c) = ScoreAt(label_xi) /\ label_xi <= c)

\* C5 as amended: the label is an index holding the maximal score; among
\* several it is the one argsort places last, which is the highest index
\* when argsort keeps equal keys in index order.
C5_LabelIsAMaximalIndex ==
    /\ pc # "start" =>
          /\ label_x0 \in ArgMaxSet(f_x0)
          /\ argsort_ties = "ascending" => label_x0 = SetMax(ArgMaxSet(f_x0))
    /\ AtLoopOrAfter =>
          /\ label_xi \in Classes
          /\ \A c \in Classes : ScoreAt(c) <= ScoreAt(label_xi)
          /\ argsort_ties = "ascending" =>
                \A c \in Classes : ScoreAt(c) = ScoreAt(label_xi) => c <= label_xi

\* the initial scores tie at the maximum and argsort keeps index order
C5_Witness ==
    /\ pc = "loop"
    /\ Cardinality(ArgMaxSet(f_x0)) >= 2
    /\ argsort_ties = "ascending"
    /\ label_x0 # SetMin(ArgMaxSet(f_x0))

\* C6: with max_iter = 0 no iteration runs and the gradient oracle is never
\* called; the call returns zeros of the shape of x0, a count of 0 and
\* label_x0.
C6_ZeroBudget ==
    max_iter = 0 =>
        /\ grad_calls = 0
        /\ loop_i = 0
        /\ r = <<>>
        /\ pc \in {"start", "loop", "sum", "done"}
        /\ pc = "done" =>
              /\ mem[r_sum] = Zeros(x0_at_call)
              /\ Shape(mem[r_sum]) = Shape(x0_at_call)
              /\ label_xi = label_x0

\* a call with max_iter = 0 that returned
C6_Witness == pc = "done" /\ max_iter = 0 /\ Len(x0_at_call) >= 2

\* C7: the caller's x0 keeps the value it had at the call, and the candidate
\* is never the caller's array.
C7_InputUnchanged ==
    /\ mem["x0"] = x0_at_call
    /\ pc # "start" => xi # "x0"
    /\ pc \in {"sum", "done"} => r_sum # "x0"

\* a call that returned after writing a non-zero sum into r_sum
C7_Witness == pc = "done" /\ loop_i >= 1 /\ mem[r_sum] # Zeros(x0_at_call)

\* C8: the perturbation returned is the element-by-element sum of the steps
\* of the history, in the shape of x0.
C8_ElementwiseSum ==
    pc = "done" =>
        /\ mem[r_sum] = StepSum
        /\ Shape(mem[r_sum]) = Shape(x0_at_call)

\* C9: whenever the loop condition is evaluated, and at return, label_xi is
\* the label of the scores of the current candidate.
C9_LabelIsFresh ==
    AtLoopOrAfter =>
        /\ label_xi \in Classes
        /\ \A c \in Classes \ {label_xi} :
              \/ ScoreAt(c) < ScoreAt(label_xi)
              \/ ScoreAt(c) = ScoreAt(label_xi)
                 /\ (IF argsort_ties = "ascending" THEN c < label_xi ELSE c > label_xi)

\* the candidate has moved and its label is no longer that of x0
C9_Witness ==
    pc = "loop" /\ loop_i >= 1 /\ mem[xi] # x0_at_call /\ label_xi # label_x0

\* C10 as claimed, its last part: with eta > 0 the point whose label is
\* returned differs from x0 + r_sum.
C10_OvershootAlwaysMoves ==
    (pc = "done" /\ eta > 0) => mem[xi] # TAdd(x0_at_call, mem[r_sum])

\* C10 as amended: the candidate is x0 + (1 + eta) * (sum of the steps so
\* far), the history holds loop_i steps, the label returned is that of this
\* point, and with eta > 0 the point differs from x0 + r_sum exactly when
\* the steps do not sum to zero.
C10_CandidateIsOvershotSum ==
    /\ AtLoopOrAfter =>
          /\ mem[xi] = TAdd(x0_at_call, TScale(Scale + eta, StepSum))
          /\ Len(r) = loop_i
    /\ (pc = "done" /\ eta > 0) =>
          ((mem[xi] = TAdd(x0_at_call, mem[r_sum])) <=> (StepSum = Zeros(x0_at_call)))

\* a call with overshoot that returned after a non-zero step
C10_Witness ==
    pc = "done" /\ eta > 0 /\ loop_i >= 1 /\ StepSum # Zeros(x0_at_call)

====
